---- MODULE Spec2Model ----
(***************************************************************************)
(* Labor Hour Calculator: the calculator page (form, validation schema,    *)
(* proposal engine `calculateProposals`) in its two variants:              *)
(*   "noDeficit"  src/unnamed/part_008  (target > current: no deficit)     *)
(*   "deficit"    src/unnamed/part_009  (target > current: funded options) *)
(*                                                                         *)
(* Numbers.  A JavaScript number is modelled as an exact fraction          *)
(* [n |-> numerator, d |-> denominator] in lowest terms with d >= 0;       *)
(* d = 0 stands for the non-finite values (n = 1: Infinity, n = -1:        *)
(* -Infinity, n = 0: NaN).  Rounding of IEEE doubles is not modelled:      *)
(* every sum, product and quotient is exact.                               *)
(***************************************************************************)
EXTENDS Integers, Sequences, FiniteSets, TLC

(* ------------------------------ numbers ------------------------------ *)

Abs(i) == IF i < 0 THEN -i ELSE i

Sgn(i) == IF i < 0 THEN -1 ELSE IF i > 0 THEN 1 ELSE 0

RECURSIVE GCD(_, _)
GCD(a, b) == IF b = 0 THEN a ELSE GCD(b, a % b)

\* the fraction n/d in lowest terms, denominator >= 0
Rat(n, d) ==
    IF d = 0 THEN [n |-> Sgn(n), d |-> 0]
    ELSE LET g == GCD(Abs(n), Abs(d))
         IN  [n |-> (Sgn(d) * n) \div g, d |-> Abs(d) \div g]

Num(i) == [n |-> i, d |-> 1]

NaN == [n |-> 0, d |-> 0]

IsNaN(a) == a.d = 0 /\ a.n = 0

IsFinite(a) == a.d # 0

\* a + b
Add(a, b) ==
    IF a.d # 0 /\ b.d # 0 THEN Rat(a.n * b.d + b.n * a.d, a.d * b.d)
    ELSE IF IsNaN(a) \/ IsNaN(b) THEN NaN
    ELSE IF a.d = 0 /\ b.d = 0 THEN (IF a.n = b.n THEN a ELSE NaN)
    ELSE IF a.d = 0 THEN a ELSE b

Neg(a) == [n |-> -a.n, d |-> a.d]

\* a - b
Sub(a, b) == Add(a, Neg(b))

\* a * b   (Infinity * 0 is NaN)
Mul(a, b) == Rat(a.n * b.n, a.d * b.d)

\* a / b   (x / 0 is +-Infinity, 0 / 0 is NaN)
Div(a, b) ==
    IF a.d = 0 /\ b.d = 0 THEN NaN
    ELSE IF b.n < 0 THEN Rat(-(a.n * b.d), a.d * (-b.n))
    ELSE Rat(a.n * b.d, a.d * b.n)

\* a < b, a <= b, a > b, a >= b: false as soon as one side is NaN
Lt(a, b) ==
    /\ ~IsNaN(a) /\ ~IsNaN(b)
    /\ IF a.d # 0 /\ b.d # 0 THEN a.n * b.d < b.n * a.d
       ELSE IF a.d = 0 /\ b.d = 0 THEN a.n < b.n
       ELSE IF a.d = 0 THEN a.n < 0 ELSE b.n > 0

Le(a, b) == ~IsNaN(a) /\ ~IsNaN(b) /\ (a = b \/ Lt(a, b))

Gt(a, b) == Lt(b, a)

Ge(a, b) == Le(b, a)

\* Math.ceil
Ceil(a) == IF a.d = 0 THEN a ELSE Num(-((-a.n) \div a.d))

\* Math.abs
MathAbs(a) == [n |-> Abs(a.n), d |-> a.d]

\* Math.min
MathMin(a, b) == IF IsNaN(a) \/ IsNaN(b) THEN NaN ELSE IF Lt(b, a) THEN b ELSE a

Zero == Num(0)

(* ------------------------- form and validation ------------------------ *)

VARIABLES
    variant,        \* which calculator page is mounted: "noDeficit" | "deficit"
    evaluated,      \* calculateProposals has been invoked at least once
    replaced,       \* an invocation has replaced the list of an earlier invocation
    data,           \* argument of the latest calculateProposals invocation
    proposals,      \* useState<Proposal[]>: the list the page shows
    isCalculating,  \* useState(false)
    errors,         \* formState.errors: the fields the resolver rejected
    divisors,       \* the divisors of the divisions the latest invocation performed
    pc,             \* per caller: "idle" | "invoked" | "shown"
    input,          \* per caller: the data its invocation was given
    obtained,       \* per caller: the list it read from the page after its invocation
    credentials,    \* authorize: the credentials it was given
    authPc,         \* authorize: "idle" | "login" | "done"
    result,         \* authorize: how it completed, and with which value
    reqPc,          \* makeRequest: "none" | "headers" | "fetch" | "backoff" | "returned" | "raised"
    retryCount,     \* makeRequest: its retryCount parameter
    headers,        \* makeRequest: the Authorization header of the current attempt
    fetched,        \* makeRequest: the fetch attempts of this call, oldest first
    thrown          \* makeRequest: the name of the error it raised

callerVars == <<pc, input, obtained>>

pageVars ==
    <<variant, evaluated, replaced, data, proposals, isCalculating, errors, divisors>>

loginVars ==
    <<credentials, authPc, result, reqPc, retryCount, headers, fetched, thrown>>

vars ==
    <<variant, evaluated, replaced, data, proposals, isCalculating, errors, divisors,
      pc, input, obtained,
      credentials, authPc, result, reqPc, retryCount, headers, fetched, thrown>>

Variants == {"noDeficit", "deficit"}

Fields ==
    {"numberOfWorkers", "currentWeekHoursPerWorker", "targetWeekHoursPerWorker",
     "maxExtraHoursPerWorker", "hourlyRate"}

Config(w, c, t, m, r) ==
    [numberOfWorkers |-> w, currentWeekHoursPerWorker |-> c,
     targetWeekHoursPerWorker |-> t, maxExtraHoursPerWorker |-> m, hourlyRate |-> r]

\* useForm defaultValues
defaultValues == Config(Num(10), Num(40), Num(50), Num(5), Num(25))

\* z.number().min(lo).max(hi): a number (not NaN) with lo <= v <= hi
ZNumber(v, lo, hi) == ~IsNaN(v) /\ Ge(v, lo) /\ Le(v, hi)

\* calculatorSchema: the set of fields that fail
calculatorSchema(d) ==
    {f \in Fields :
        ~ CASE f = "numberOfWorkers"           -> ZNumber(d[f], Num(1), Num(10000))
            [] f = "currentWeekHoursPerWorker" -> ZNumber(d[f], Num(1), Num(168))
            [] f = "targetWeekHoursPerWorker"  -> ZNumber(d[f], Num(1), Num(168))
            [] f = "maxExtraHoursPerWorker"    -> ZNumber(d[f], Num(0), Num(50))
            [] f = "hourlyRate"                -> ZNumber(d[f], Rat(1, 100), Num(1000))}

(* --------------------------- proposal engine -------------------------- *)

\* overtime billed at double time
DoubleTimeMultiplier == Num(2)

\* overtime is billed at 1.5 x hourlyRate
OvertimeMultiplier == Rat(3, 2)

Hundred == Num(100)

totalCurrentWeekHours(d) == Mul(d.numberOfWorkers, d.currentWeekHoursPerWorker)

totalTargetWeekHours(d) == Mul(d.numberOfWorkers, d.targetWeekHoursPerWorker)

currentWeeklyCost(d) == Mul(totalCurrentWeekHours(d), d.hourlyRate)

hourDifferencePerWorker(d) ==
    Sub(d.targetWeekHoursPerWorker, d.currentWeekHoursPerWorker)

\* the share left as a fraction, not multiplied by 100
PercentageOfAsFraction(cost, d) == Div(cost, currentWeeklyCost(d))

\* (cost / currentWeeklyCost) * 100
PercentageOf(cost, d) == Mul(Div(cost, currentWeeklyCost(d)), Hundred)

\* Case 2: hoursReductionPerWorker, totalHoursToReplace
totalHoursToReplace(d) == Mul(d.numberOfWorkers, MathAbs(hourDifferencePerWorker(d)))

\* a Proposal; description and details hold the numbers their templates interpolate
Proposal(opt, desc, hours, uncovered, cost, pct, eff, det) ==
    [option |-> opt, description |-> desc, totalWeeklyHours |-> hours,
     uncoveredHours |-> uncovered, costImpact |-> cost,
     costPercentageChange |-> pct, efficiency |-> eff, details |-> det]

\* the no-deficit proposal reporting the target hours as the weekly total
NoDeficitProposalTargetHours(d) ==
    Proposal("No Deficit - Target Exceeds Current",
             [target |-> d.targetWeekHoursPerWorker, current |-> d.currentWeekHoursPerWorker],
             totalTargetWeekHours(d), Zero, Zero, Zero, "No deficit",
             [current |-> d.currentWeekHoursPerWorker, target |-> d.targetWeekHoursPerWorker])

\* variant "noDeficit", Case 1: target above current
NoDeficitProposal(d) ==
    Proposal("No Deficit - Target Exceeds Current",
             [target |-> d.targetWeekHoursPerWorker, current |-> d.currentWeekHoursPerWorker],
             totalCurrentWeekHours(d), Zero, Zero, Zero, "No deficit",
             [current |-> d.currentWeekHoursPerWorker, target |-> d.targetWeekHoursPerWorker])

\* Math.floor in place of Math.ceil
additionalWorkersNeededFloor(d) ==
    Neg(Ceil(Neg(Div(totalHoursToReplace(d), d.targetWeekHoursPerWorker))))

\* one worker more than the hours need
additionalWorkersNeededSpare(d) ==
    Add(Ceil(Div(totalHoursToReplace(d), d.targetWeekHoursPerWorker)), Num(1))

\* additionalWorkersNeeded = Math.ceil(totalHoursToReplace / targetWeekHoursPerWorker)
additionalWorkersNeeded(d) ==
    Ceil(Div(totalHoursToReplace(d), d.targetWeekHoursPerWorker))

\* the hire option billed for the replaced hours only, not for whole workers
HireAdditionalWorkersReplacedHoursOnly(d) ==
    LET actualAdditionalHours == Mul(additionalWorkersNeeded(d), d.targetWeekHoursPerWorker)
        newWorkersCost == Mul(totalHoursToReplace(d), d.hourlyRate)
        excessHours == Sub(actualAdditionalHours, totalHoursToReplace(d))
    IN  Proposal("Hire Additional Workers",
                 [additionalWorkersNeeded |-> additionalWorkersNeeded(d),
                  totalCurrentWeekHours |-> totalCurrentWeekHours(d),
                  target |-> d.targetWeekHoursPerWorker],
                 Add(totalCurrentWeekHours(d), excessHours), Zero, newWorkersCost,
                 PercentageOf(newWorkersCost, d), "Fully covered",
                 [totalHoursToReplace |-> totalHoursToReplace(d),
                  additionalWorkersNeeded |-> additionalWorkersNeeded(d),
                  target |-> d.targetWeekHoursPerWorker,
                  actualAdditionalHours |-> actualAdditionalHours])

\* the hire option reporting the current total hours, the new workers' excess left out
HireAdditionalWorkersKeepsTotalHours(d) ==
    LET actualAdditionalHours == Mul(additionalWorkersNeeded(d), d.targetWeekHoursPerWorker)
        newWorkersCost == Mul(actualAdditionalHours, d.hourlyRate)
    IN  Proposal("Hire Additional Workers",
                 [additionalWorkersNeeded |-> additionalWorkersNeeded(d),
                  totalCurrentWeekHours |-> totalCurrentWeekHours(d),
                  target |-> d.targetWeekHoursPerWorker],
                 totalCurrentWeekHours(d), Zero, newWorkersCost,
                 PercentageOf(newWorkersCost, d), "Fully covered",
                 [totalHoursToReplace |-> totalHoursToReplace(d),
                  additionalWorkersNeeded |-> additionalWorkersNeeded(d),
                  target |-> d.targetWeekHoursPerWorker,
                  actualAdditionalHours |-> actualAdditionalHours])

\* Case 2, option 1: hire additional workers to maintain total hours
HireAdditionalWorkers(d) ==
    LET actualAdditionalHours == Mul(additionalWorkersNeeded(d), d.targetWeekHoursPerWorker)
        newWorkersCost == Mul(actualAdditionalHours, d.hourlyRate)
        excessHours == Sub(actualAdditionalHours, totalHoursToReplace(d))
    IN  Proposal("Hire Additional Workers",
                 [additionalWorkersNeeded |-> additionalWorkersNeeded(d),
                  totalCurrentWeekHours |-> totalCurrentWeekHours(d),
                  target |-> d.targetWeekHoursPerWorker],
                 Add(totalCurrentWeekHours(d), excessHours), Zero, newWorkersCost,
                 PercentageOf(newWorkersCost, d), "Fully covered",
                 [totalHoursToReplace |-> totalHoursToReplace(d),
                  additionalWorkersNeeded |-> additionalWorkersNeeded(d),
                  target |-> d.targetWeekHoursPerWorker,
                  actualAdditionalHours |-> actualAdditionalHours])

\* the guard written > 1
OvertimeOfferedAboveOneHour(d) == Gt(d.maxExtraHoursPerWorker, Num(1))

\* the guard written >= 0
OvertimeOfferedFromZero(d) == Ge(d.maxExtraHoursPerWorker, Zero)

\* Case 2, option 2 guard: if (data.maxExtraHoursPerWorker > 0)
OvertimeOffered(d) == Gt(d.maxExtraHoursPerWorker, Zero)

\* Math.floor in place of Math.ceil
workersWithExtraHoursFloor(d) ==
    Neg(Ceil(Neg(Div(totalHoursToReplace(d), d.maxExtraHoursPerWorker))))

\* workersWithExtraHours = Math.ceil(totalHoursToReplace / maxExtraHoursPerWorker)
workersWithExtraHours(d) ==
    Ceil(Div(totalHoursToReplace(d), d.maxExtraHoursPerWorker))

actualExtraHoursTotal(d) ==
    MathMin(totalHoursToReplace(d),
            Mul(workersWithExtraHours(d), d.maxExtraHoursPerWorker))

remainingHoursNeeded(d) == Sub(totalHoursToReplace(d), actualExtraHoursTotal(d))

\* the test written < 0
CoveredByOvertimeStrict(d) == Lt(remainingHoursNeeded(d), Zero)

\* if (remainingHoursNeeded <= 0)
CoveredByOvertime(d) == Le(remainingHoursNeeded(d), Zero)

\* extraCost = actualExtraHoursTotal * hourlyRate * 1.5
OvertimeCost(hours, d) == Mul(Mul(hours, d.hourlyRate), OvertimeMultiplier)

\* Case 2, option 2, covered entirely with extra hours
RedistributeWithOvertime(d) ==
    LET extraCost == OvertimeCost(actualExtraHoursTotal(d), d)
    IN  Proposal("Redistribute Hours with Overtime",
                 [numberOfWorkers |-> d.numberOfWorkers,
                  target |-> d.targetWeekHoursPerWorker,
                  workersWithExtraHours |-> workersWithExtraHours(d)],
                 totalCurrentWeekHours(d), Zero, extraCost,
                 PercentageOf(extraCost, d), "Fully covered",
                 [workersWithExtraHours |-> workersWithExtraHours(d),
                  maxExtraHoursPerWorker |-> d.maxExtraHoursPerWorker,
                  actualExtraHoursTotal |-> actualExtraHoursTotal(d)])

\* Case 2, option 2, combination of extra hours and new workers
HybridOvertimeAndWorkers(d) ==
    LET additionalWorkersForRemainder ==
            Ceil(Div(remainingHoursNeeded(d), d.targetWeekHoursPerWorker))
        extraCost == OvertimeCost(actualExtraHoursTotal(d), d)
        newWorkersCostForRemainder ==
            Mul(Mul(additionalWorkersForRemainder, d.targetWeekHoursPerWorker),
                d.hourlyRate)
        totalCombinedCost == Add(extraCost, newWorkersCostForRemainder)
    IN  Proposal("Hybrid: Overtime + Additional Workers",
                 [target |-> d.targetWeekHoursPerWorker,
                  workersWithExtraHours |-> workersWithExtraHours(d),
                  additionalWorkersForRemainder |-> additionalWorkersForRemainder],
                 Add(totalCurrentWeekHours(d),
                     Sub(Mul(additionalWorkersForRemainder, d.targetWeekHoursPerWorker),
                         remainingHoursNeeded(d))),
                 Zero, totalCombinedCost,
                 PercentageOf(totalCombinedCost, d), "Fully covered",
                 [actualExtraHoursTotal |-> actualExtraHoursTotal(d),
                  additionalWorkersForRemainder |-> additionalWorkersForRemainder])

\* the hire option pushed only when overtime is not offered
ReduceHoursCaseHireAsFallback(d) ==
    IF OvertimeOffered(d)
    THEN IF CoveredByOvertime(d)
         THEN <<RedistributeWithOvertime(d)>>
         ELSE <<HybridOvertimeAndWorkers(d)>>
    ELSE <<HireAdditionalWorkers(d)>>

\* Case 2: current above target (the same code in both variants)
ReduceHoursCase(d) ==
    <<HireAdditionalWorkers(d)>> \o
    (IF OvertimeOffered(d)
     THEN IF CoveredByOvertime(d)
          THEN <<RedistributeWithOvertime(d)>>
          ELSE <<HybridOvertimeAndWorkers(d)>>
     ELSE <<>>)

\* the divisors Case 2 divides by
ReduceHoursDivisors(d) ==
    {d.targetWeekHoursPerWorker, currentWeeklyCost(d)} \cup
    (IF OvertimeOffered(d) THEN {d.maxExtraHoursPerWorker} ELSE {})

\* Case 3: hours per worker already at target
MatchesTargetProposal(d) ==
    Proposal("Current Capacity Matches Target", <<>>,
             totalCurrentWeekHours(d), Zero, Zero, Zero, "Fully covered",
             [current |-> d.currentWeekHoursPerWorker, target |-> d.targetWeekHoursPerWorker])

(* ------------- variant "deficit", Case 1: target above current -------- *)

totalUncoveredHours(d) == Mul(d.numberOfWorkers, hourDifferencePerWorker(d))

\* the guard written >
OvertimeCoversDeficitStrict(d) == Gt(d.maxExtraHoursPerWorker, hourDifferencePerWorker(d))

\* Option 1 guard: if (data.maxExtraHoursPerWorker >= uncoveredHoursPerWorker)
OvertimeCoversDeficit(d) == Ge(d.maxExtraHoursPerWorker, hourDifferencePerWorker(d))

\* the upper limit written <=
OvertimeCoversPartUpToDeficit(d) ==
    /\ Gt(d.maxExtraHoursPerWorker, Zero)
    /\ Le(d.maxExtraHoursPerWorker, hourDifferencePerWorker(d))

\* the guard without its upper limit
OvertimeCoversPartAnyExtra(d) == Gt(d.maxExtraHoursPerWorker, Zero)

\* Option 2 and option 4 guard: 0 < maxExtraHoursPerWorker < uncoveredHoursPerWorker
OvertimeCoversPart(d) ==
    /\ Gt(d.maxExtraHoursPerWorker, Zero)
    /\ Lt(d.maxExtraHoursPerWorker, hourDifferencePerWorker(d))

\* Option 1: add extra hours per worker (overtime)
AddExtraHoursPerWorker(d) ==
    LET extraHoursPerWorker == hourDifferencePerWorker(d)
        totalExtraHours == Mul(extraHoursPerWorker, d.numberOfWorkers)
        newTotalHours == Add(totalCurrentWeekHours(d), totalExtraHours)
        extraCost == OvertimeCost(totalExtraHours, d)
    IN  Proposal("Add Extra Hours per Worker",
                 [extraHoursPerWorker |-> extraHoursPerWorker],
                 newTotalHours, Zero, extraCost,
                 PercentageOf(extraCost, d), "Fully covered",
                 [numberOfWorkers |-> d.numberOfWorkers,
                  extraHoursPerWorker |-> extraHoursPerWorker,
                  totalExtraHours |-> totalExtraHours])

\* Option 2: use maximum extra hours per worker
UseMaximumExtraHours(d) ==
    LET extraHoursPerWorker == d.maxExtraHoursPerWorker
        totalExtraHours == Mul(extraHoursPerWorker, d.numberOfWorkers)
        newTotalHours == Add(totalCurrentWeekHours(d), totalExtraHours)
        remainingUncoveredPerWorker == Sub(hourDifferencePerWorker(d), extraHoursPerWorker)
        totalRemainingUncovered == Mul(remainingUncoveredPerWorker, d.numberOfWorkers)
        extraCost == OvertimeCost(totalExtraHours, d)
    IN  Proposal("Use Maximum Extra Hours per Worker",
                 [maxExtraHoursPerWorker |-> d.maxExtraHoursPerWorker],
                 newTotalHours, totalRemainingUncovered, extraCost,
                 PercentageOf(extraCost, d), "Partially covered",
                 [numberOfWorkers |-> d.numberOfWorkers,
                  maxExtraHoursPerWorker |-> d.maxExtraHoursPerWorker,
                  totalExtraHours |-> totalExtraHours,
                  remainingUncoveredPerWorker |-> remainingUncoveredPerWorker,
                  totalRemainingUncovered |-> totalRemainingUncovered])

\* Option 3: hire additional workforce
HireAdditionalWorkforce(d) ==
    LET newWorkersCost == Mul(totalUncoveredHours(d), d.hourlyRate)
    IN  Proposal("Hire Additional Workforce",
                 [uncoveredHoursPerWorker |-> hourDifferencePerWorker(d),
                  totalUncoveredHours |-> totalUncoveredHours(d)],
                 totalTargetWeekHours(d), Zero, newWorkersCost,
                 PercentageOf(newWorkersCost, d), "Fully covered",
                 [totalUncoveredHours |-> totalUncoveredHours(d)])

\* Option 4: hybrid approach (max extra hours + new workforce)
HybridApproach(d) ==
    LET extraHoursPerWorker == d.maxExtraHoursPerWorker
        totalExtraHours == Mul(extraHoursPerWorker, d.numberOfWorkers)
        remainingUncoveredPerWorker == Sub(hourDifferencePerWorker(d), extraHoursPerWorker)
        totalRemainingHours == Mul(remainingUncoveredPerWorker, d.numberOfWorkers)
        extraHoursCost == OvertimeCost(totalExtraHours, d)
        newWorkersCost == Mul(totalRemainingHours, d.hourlyRate)
        totalCost == Add(extraHoursCost, newWorkersCost)
    IN  Proposal("Hybrid Approach",
                 [maxExtraHoursPerWorker |-> d.maxExtraHoursPerWorker,
                  remainingUncoveredPerWorker |-> remainingUncoveredPerWorker],
                 totalTargetWeekHours(d), Zero, totalCost,
                 PercentageOf(totalCost, d), "Fully covered",
                 [totalExtraHours |-> totalExtraHours,
                  totalRemainingHours |-> totalRemainingHours])

\* the hire option pushed only when no overtime option was
IncreaseHoursCaseHireAsFallback(d) ==
    (IF OvertimeCoversDeficit(d) THEN <<AddExtraHoursPerWorker(d)>> ELSE <<>>) \o
    (IF OvertimeCoversPart(d) THEN <<UseMaximumExtraHours(d)>> ELSE <<>>) \o
    (IF OvertimeCoversDeficit(d) \/ OvertimeCoversPart(d)
     THEN <<>> ELSE <<HireAdditionalWorkforce(d)>>) \o
    (IF OvertimeCoversPart(d) THEN <<HybridApproach(d)>> ELSE <<>>)

\* Case 1 of the deficit variant: up to four options, pushed in this order
IncreaseHoursCase(d) ==
    (IF OvertimeCoversDeficit(d) THEN <<AddExtraHoursPerWorker(d)>> ELSE <<>>) \o
    (IF OvertimeCoversPart(d) THEN <<UseMaximumExtraHours(d)>> ELSE <<>>) \o
    <<HireAdditionalWorkforce(d)>> \o
    (IF OvertimeCoversPart(d) THEN <<HybridApproach(d)>> ELSE <<>>)

(* ------------------------ calculateProposals -------------------------- *)

\* the second branch written <= 0, so that equal hours fall into Case 2
EmittedProposalsNoMatchCase(v, d) ==
    IF Gt(hourDifferencePerWorker(d), Zero)
    THEN IF v = "noDeficit" THEN <<NoDeficitProposal(d)>> ELSE IncreaseHoursCase(d)
    ELSE IF Le(hourDifferencePerWorker(d), Zero)
    THEN ReduceHoursCase(d)
    ELSE <<MatchesTargetProposal(d)>>

\* the deficit variant offering only the hire option when hours are reduced
EmittedProposalsDeficitHireOnly(v, d) ==
    IF Gt(hourDifferencePerWorker(d), Zero)
    THEN IF v = "noDeficit" THEN <<NoDeficitProposal(d)>> ELSE IncreaseHoursCase(d)
    ELSE IF Lt(hourDifferencePerWorker(d), Zero)
    THEN IF v = "noDeficit" THEN ReduceHoursCase(d) ELSE <<HireAdditionalWorkers(d)>>
    ELSE <<MatchesTargetProposal(d)>>

\* the list newProposals as pushed, before the sort
EmittedProposals(v, d) ==
    IF Gt(hourDifferencePerWorker(d), Zero)
    THEN IF v = "noDeficit" THEN <<NoDeficitProposal(d)>> ELSE IncreaseHoursCase(d)
    ELSE IF Lt(hourDifferencePerWorker(d), Zero)
    THEN ReduceHoursCase(d)
    ELSE <<MatchesTargetProposal(d)>>

\* the divisors of every division the invocation performs
DivisorsUsed(v, d) ==
    IF Gt(hourDifferencePerWorker(d), Zero)
    THEN IF v = "noDeficit" THEN {} ELSE {currentWeeklyCost(d)}
    ELSE IF Lt(hourDifferencePerWorker(d), Zero)
    THEN ReduceHoursDivisors(d)
    ELSE {}

\* the comparator written b.costImpact - a.costImpact
CompareByCostDescending(a, b) == Sub(b.costImpact, a.costImpact)

\* the comparator (a, b) => a.costImpact - b.costImpact
CompareByCost(a, b) == Sub(a.costImpact, b.costImpact)

\* insert p in front of the elements that compare equal to it
InsertByCostBeforeTies(sorted, p) ==
    LET behind == {i \in 1..Len(sorted) : Ge(CompareByCost(sorted[i], p), Zero)}
        k == IF behind = {} THEN Len(sorted) + 1
             ELSE CHOOSE i \in behind : \A j \in behind : i <= j
    IN  SubSeq(sorted, 1, k - 1) \o <<p>> \o SubSeq(sorted, k, Len(sorted))

\* insert p behind every element that does not compare greater than it
InsertByCost(sorted, p) ==
    LET behind == {i \in 1..Len(sorted) : Gt(CompareByCost(sorted[i], p), Zero)}
        k == IF behind = {} THEN Len(sorted) + 1
             ELSE CHOOSE i \in behind : \A j \in behind : i <= j
    IN  SubSeq(sorted, 1, k - 1) \o <<p>> \o SubSeq(sorted, k, Len(sorted))

\* Array.prototype.sort: a stable sort (insertion sort on these short lists)
RECURSIVE SortFrom(_, _)
SortFrom(sorted, rest) ==
    IF rest = <<>> THEN sorted
    ELSE SortFrom(InsertByCost(sorted, Head(rest)), Tail(rest))

\* the list left in emission order
LeftUnsorted(list) == list

SortByCost(list) == SortFrom(<<>>, list)

calculateProposals(v, d) == SortByCost(EmittedProposals(v, d))

(* ------------------------------ the page ------------------------------ *)

MaxWorkers == 2

MaxHours == 4

MaxExtraHours == 2

\* every combination of small whole numbers
GridConfigs ==
    {Config(Num(w), Num(c), Num(t), Num(m), Num(25)) :
        w \in 1..MaxWorkers, c \in 1..MaxHours, t \in 1..MaxHours,
        m \in 0..MaxExtraHours}

\* the documented example, the form defaults, range limits and fractional values
ExampleConfig == Config(Num(10), Num(50), Num(40), Num(5), Num(25))

ExtraConfigs ==
    {ExampleConfig, defaultValues,
     Config(Num(10), Num(40), Num(40), Num(5), Num(25)),
     Config(Num(10), Num(40), Num(50), Num(10), Num(25)),
     Config(Num(10), Num(40), Num(50), Num(0), Num(25)),
     Config(Num(100), Num(168), Num(1), Num(50), Num(1000)),
     Config(Num(1), Num(1), Num(168), Num(0), Rat(1, 100)),
     Config(Num(1), Num(5), Num(3), Num(1), Rat(1, 100)),
     Config(Num(2), Num(1), Num(4), Num(2), Rat(1, 100)),
     Config(Num(2), Num(3), Num(3), Num(0), Rat(1, 100)),
     Config(Num(2), Rat(9, 2), Rat(5, 2), Rat(1, 2), Rat(5, 4)),
     Config(Num(3), Rat(5, 2), Num(4), Rat(1, 2), Rat(1, 100)),
     Config(Rat(3, 2), Num(5), Num(4), Num(1), Num(25))}

\* submissions the resolver rejects
RejectedConfigs ==
    {Config(Num(0), Num(40), Num(50), Num(5), Num(25)),
     Config(Num(10001), Num(40), Num(50), Num(5), Num(25)),
     Config(Num(10), Num(169), Num(50), Num(5), Num(25)),
     Config(Num(10), Num(40), Num(0), Num(5), Num(25)),
     Config(Num(10), Num(40), Num(50), Num(-1), Num(25)),
     Config(Num(10), Num(40), Num(50), Num(51), Num(25)),
     Config(Num(10), Num(40), Num(50), Num(5), Zero),
     Config(Num(10), Num(40), Num(50), Num(5), Num(1001)),
     Config(NaN, Num(40), Num(50), Num(5), Num(25)),
     Config(Num(10), NaN, Num(0), Num(5), Rat(1, 200))}

FormInputs == GridConfigs \cup ExtraConfigs \cup RejectedConfigs

\* zodResolver(calculatorSchema) on each submission
resolver == [d \in FormInputs |-> calculatorSchema(d)]

AcceptedInputs == {d \in FormInputs : resolver[d] = {}}

RejectedInputs == FormInputs \ AcceptedInputs

\* calculateProposals on each accepted submission, evaluated once
engine ==
    [v \in Variants |->
        [d \in AcceptedInputs |->
            [newProposals |-> calculateProposals(v, d), divisors |-> DivisorsUsed(v, d)]]]

\* the new list added to the list already held
NextProposalsAppended(d) == SortByCost(proposals \o engine[variant][d].newProposals)

\* the list of the first invocation kept for later ones
NextProposalsFirstKept(d) ==
    IF evaluated THEN proposals ELSE engine[variant][d].newProposals

\* setProposals(newProposals): the list the page holds after the invocation
NextProposals(d) == engine[variant][d].newProposals

(* --------------------- credentials login (authorize) ------------------ *)

\* a property that is not there
Undefined == "undefined"

\* !value for the strings a credentials record holds
Falsy(value) == value \in {Undefined, ""}

\* the credentials NextAuth hands to authorize
CredentialInputs ==
    {[email |-> e, password |-> p] :
        e \in {Undefined, "", "ana@example.com"}, p \in {Undefined, "", "secret"}}

\* API_CONFIG
API_CONFIG == [timeout |-> 10000, retries |-> 3]

\* getSession(): a session with an accessToken, no session, or a rejection
SessionOutcomes == {"session with accessToken", "no session", "getSession rejects"}

Ok2xx ==
    {"2xx login body", "2xx login body without name", "2xx body without user",
     "2xx body not JSON"}

Non2xx == {"non-2xx body with message", "non-2xx body not JSON", "non-2xx body null"}

\* what one fetch(url, ...) can come back with
FetchOutcomes == {"network failure"} \cup Ok2xx \cup Non2xx

\* the names of the errors raised here; each is an instance of Error
ErrorInstances == {"Error", "TypeError", "SyntaxError", "ApiError"}

\* await response.json().catch(() => ({})) of a non-2xx response
errorData(o) ==
    IF o = "non-2xx body with message"
    THEN [json |-> "object", message |-> "Invalid credentials"]
    ELSE IF o = "non-2xx body null"
    THEN [json |-> "null", message |-> Undefined]
    ELSE [json |-> "object", message |-> Undefined]

\* the try block of makeRequest: fetch, then the !response.ok branch, in which
\* errorData.message is read before the ApiError is constructed
TryBlock(o) ==
    IF o = "network failure" THEN [kind |-> "throw", error |-> "TypeError"]
    ELSE IF o \in Ok2xx THEN [kind |-> "return", error |-> "none"]
    ELSE IF errorData(o).json = "null" THEN [kind |-> "throw", error |-> "TypeError"]
    ELSE [kind |-> "throw", error |-> "ApiError"]

\* retryCount < API_CONFIG.retries && error instanceof Error && error.name !== 'ApiError'
ShouldRetry(n, error) ==
    /\ n < API_CONFIG.retries
    /\ error \in ErrorInstances
    /\ error # "ApiError"

\* response.json() of a 2xx response to POST /auth/login
LoginBody(o) ==
    IF o = "2xx login body"
    THEN [user |-> <<[id |-> "u1", email |-> "ana@example.com", name |-> "Ana Diaz",
                      firstName |-> "Ana", lastName |-> "Diaz", image |-> Undefined]>>,
          token |-> "token-1"]
    ELSE IF o = "2xx login body without name"
    THEN [user |-> <<[id |-> "u2", email |-> "ana@example.com", name |-> "",
                      firstName |-> "Ana", lastName |-> "Diaz", image |-> "ana.png"]>>,
          token |-> "token-2"]
    ELSE [user |-> <<>>, token |-> Undefined]

\* api.auth.login -> apiClient.post: makeRequest, then response.json()
PostCompletion ==
    IF reqPc = "raised" THEN [kind |-> "throw", error |-> thrown, body |-> LoginBody("")]
    ELSE IF fetched[Len(fetched)].outcome = "2xx body not JSON"
    THEN [kind |-> "throw", error |-> "SyntaxError", body |-> LoginBody("")]
    ELSE [kind |-> "return", error |-> "none",
          body |-> LoginBody(fetched[Len(fetched)].outcome)]

\* the catch block rethrowing what it caught
CatchBlockRethrows(error) == [kind |-> "throw", value |-> <<>>]

\* the catch block of authorize: log twice, return null
CatchBlock(error) == [kind |-> "return", value |-> <<>>]

\* the user object authorize returns
UserOf(response) ==
    LET user == response.user[1]
    IN  [id |-> user.id,
         email |-> user.email,
         name |-> IF Falsy(user.name) THEN <<user.firstName, " ", user.lastName>>
                  ELSE <<user.name>>,
         image |-> IF Falsy(user.image) THEN "null" ELSE user.image,
         accessToken |-> response.token]

\* the try block of authorize once api.auth.login has settled; response.user.id
\* of a body without user throws a TypeError
TryLogin(post) ==
    IF post.kind = "throw" THEN CatchBlock(post.error)
    ELSE IF post.body.user = <<>> THEN CatchBlock("TypeError")
    ELSE [kind |-> "return", value |-> <<UserOf(post.body)>>]

\* the callers whose submissions are in flight together
Callers == {"first", "second"}

\* the data the callers submit
CallerInputs ==
    {ExampleConfig, defaultValues, Config(Num(2), Num(4), Num(4), Num(1), Num(25))}

\* the last of the updates an event handler queued is the state after it
LastUpdate(updates) == updates[Len(updates)]

\* setIsCalculating(false) left out
setIsCalculatingNeverReset == <<TRUE>>

\* setIsCalculating(true) on entry, setIsCalculating(false) before returning
setIsCalculating == <<TRUE, FALSE>>

Init ==
    /\ variant \in Variants
    /\ evaluated = FALSE
    /\ replaced = FALSE
    /\ data = defaultValues
    /\ proposals = <<>>
    /\ isCalculating = FALSE
    /\ errors = {}
    /\ divisors = {}
    /\ pc = [c \in Callers |-> "idle"]
    /\ input = [c \in Callers |-> defaultValues]
    /\ obtained = [c \in Callers |-> <<>>]
    /\ credentials = [email |-> Undefined, password |-> Undefined]
    /\ authPc = "idle"
    /\ result = [kind |-> "pending", value |-> <<>>]
    /\ reqPc = "none"
    /\ retryCount = 0
    /\ headers = "none"
    /\ fetched = <<>>
    /\ thrown = "none"

\* onSubmit, the resolver accepts: handleSubmit invokes calculateProposals(data),
\* which runs synchronously from setIsCalculating(true) to setProposals(newProposals)
\* and setIsCalculating(false): one step, no other handler runs in between
SubmitValid(d) ==
    /\ resolver[d] = {}
    /\ evaluated' = TRUE
    /\ replaced' = evaluated
    /\ data' = d
    /\ proposals' = NextProposals(d)
    /\ divisors' = engine[variant][d].divisors
    /\ isCalculating' = LastUpdate(setIsCalculating)
    /\ errors' = {}
    /\ UNCHANGED <<variant, callerVars, loginVars>>

\* onSubmit, the resolver rejects: calculateProposals is not invoked
SubmitInvalid(d) ==
    /\ resolver[d] # {}
    /\ errors' = resolver[d]
    /\ UNCHANGED <<variant, evaluated, replaced, data, proposals, isCalculating, divisors>>
    /\ UNCHANGED <<callerVars, loginVars>>

Next ==
    \/ \E d \in AcceptedInputs : SubmitValid(d)
    \/ \E d \in RejectedInputs : SubmitInvalid(d)

Spec == Init /\ [][Next]_vars

\* a caller's submission passes the resolver and calculateProposals(d) runs to its
\* end: the function has no return statement, it hands its list to setProposals
Invoke(c, d) ==
    /\ pc[c] = "idle"
    /\ resolver[d] = {}
    /\ evaluated' = TRUE
    /\ replaced' = evaluated
    /\ data' = d
    /\ proposals' = NextProposals(d)
    /\ divisors' = engine[variant][d].divisors
    /\ isCalculating' = LastUpdate(setIsCalculating)
    /\ errors' = {}
    /\ pc' = [pc EXCEPT ![c] = "invoked"]
    /\ input' = [input EXCEPT ![c] = d]
    /\ UNCHANGED <<variant, obtained, loginVars>>

\* the caller reads its result where the page keeps it: proposals.map(...) of the
\* next render
Render(c) ==
    /\ pc[c] = "invoked"
    /\ obtained' = [obtained EXCEPT ![c] = proposals]
    /\ pc' = [pc EXCEPT ![c] = "shown"]
    /\ UNCHANGED <<variant, evaluated, replaced, data, proposals, isCalculating,
                   errors, divisors, input, loginVars>>

NextCallers ==
    \/ \E c \in Callers : \E d \in CallerInputs : Invoke(c, d)
    \/ \E c \in Callers : Render(c)

SpecCallers == Init /\ [][NextCallers]_vars

\* authorize(credentials) up to its first await
Authorize(c) ==
    /\ authPc = "idle"
    /\ credentials' = c
    /\ IF Falsy(c.email) \/ Falsy(c.password)
       THEN /\ result' = [kind |-> "return", value |-> <<>>]
            /\ authPc' = "done"
            /\ UNCHANGED <<reqPc, retryCount, headers, fetched, thrown>>
       ELSE /\ authPc' = "login"
            /\ reqPc' = "headers"
            /\ retryCount' = 0
            /\ UNCHANGED <<result, headers, fetched, thrown>>
    /\ UNCHANGED <<pageVars, callerVars>>

\* makeRequest: await this.getAuthHeaders(), outside the try block
GetAuthHeaders(s) ==
    /\ reqPc = "headers"
    /\ IF s = "getSession rejects"
       THEN /\ reqPc' = "raised"
            /\ thrown' = "Error"
            /\ UNCHANGED headers
       ELSE /\ reqPc' = "fetch"
            /\ headers' = IF s = "session with accessToken" THEN "Bearer" ELSE "none"
            /\ UNCHANGED thrown
    /\ UNCHANGED <<credentials, authPc, result, retryCount, fetched>>
    /\ UNCHANGED <<pageVars, callerVars>>

\* makeRequest: the try block and the catch block for one fetch
Fetch(o) ==
    /\ reqPc = "fetch"
    /\ LET try == TryBlock(o)
       IN  /\ fetched' = Append(fetched, [outcome |-> o, error |-> try.error])
           /\ IF try.kind = "return"
              THEN reqPc' = "returned" /\ UNCHANGED thrown
              ELSE IF ShouldRetry(retryCount, try.error)
              THEN reqPc' = "backoff" /\ UNCHANGED thrown
              ELSE reqPc' = "raised" /\ thrown' = try.error
    /\ UNCHANGED <<credentials, authPc, result, retryCount, headers>>
    /\ UNCHANGED <<pageVars, callerVars>>

\* makeRequest: the timeout has passed, this.makeRequest(..., retryCount + 1)
Backoff ==
    /\ reqPc = "backoff"
    /\ retryCount' = retryCount + 1
    /\ reqPc' = "headers"
    /\ UNCHANGED <<credentials, authPc, result, headers, fetched, thrown>>
    /\ UNCHANGED <<pageVars, callerVars>>

\* authorize: api.auth.login has settled, the rest of the try block or the catch
LoginSettles ==
    /\ authPc = "login"
    /\ reqPc \in {"returned", "raised"}
    /\ result' = TryLogin(PostCompletion)
    /\ authPc' = "done"
    /\ UNCHANGED <<credentials, reqPc, retryCount, headers, fetched, thrown>>
    /\ UNCHANGED <<pageVars, callerVars>>

NextLogin ==
    \/ \E c \in CredentialInputs : Authorize(c)
    \/ \E s \in SessionOutcomes : GetAuthHeaders(s)
    \/ \E o \in FetchOutcomes : Fetch(o)
    \/ Backoff
    \/ LoginSettles

SpecLogin == Init /\ [][NextLogin]_vars

(* ------------------------------- claims ------------------------------- *)

\* the data-model constraints of a StaffingConfiguration: the ranges of the
\* schema, and numberOfWorkers a whole number
ValidConfiguration(d) ==
    /\ calculatorSchema(d) = {}
    /\ d.numberOfWorkers.d = 1

\* the page shows the engine's result for a configuration of the data model
Shown == evaluated /\ ValidConfiguration(data)

TargetAboveCurrent == Gt(data.targetWeekHoursPerWorker, data.currentWeekHoursPerWorker)

TargetBelowCurrent == Lt(data.targetWeekHoursPerWorker, data.currentWeekHoursPerWorker)

TargetEqualsCurrent == data.targetWeekHoursPerWorker = data.currentWeekHoursPerWorker

Positions == 1..Len(proposals)

Options == {proposals[i].option : i \in Positions}

PositionOf(opt) == CHOOSE i \in Positions : proposals[i].option = opt

\* C1: for every valid configuration the result is non-empty and each proposal's
\* costImpact is at most the costImpact of the proposal that follows it
C1_NonEmptySortedByCost ==
    Shown =>
        /\ Len(proposals) >= 1
        /\ \A i \in 1..(Len(proposals) - 1) :
              Le(proposals[i].costImpact, proposals[i + 1].costImpact)

\* a result whose emission order was not ascending, so the sort re-ordered it
C1_Witness ==
    /\ Shown
    /\ Len(proposals) >= 2
    /\ proposals # EmittedProposals(variant, data)
    /\ Lt(proposals[1].costImpact, proposals[2].costImpact)

\* C2: (no-deficit variant) with target above current the result is exactly the one
\* "No Deficit - Target Exceeds Current" proposal: efficiency "No deficit", cost 0,
\* uncovered hours 0, total weekly hours numberOfWorkers * currentWeekHoursPerWorker
C2_NoDeficitSingleProposal ==
    (Shown /\ variant = "noDeficit" /\ TargetAboveCurrent) =>
        /\ Len(proposals) = 1
        /\ proposals[1].option = "No Deficit - Target Exceeds Current"
        /\ proposals[1].efficiency = "No deficit"
        /\ proposals[1].costImpact = Zero
        /\ proposals[1].uncoveredHours = Zero
        /\ proposals[1].totalWeeklyHours =
              Mul(data.numberOfWorkers, data.currentWeekHoursPerWorker)

C2_Witness ==
    /\ Shown /\ variant = "noDeficit" /\ TargetAboveCurrent
    /\ Gt(data.maxExtraHoursPerWorker, Zero)
    /\ Len(proposals) = 1

\* C3: with target below current every proposal has uncoveredHours 0 and efficiency
\* "Fully covered", and "Hire Additional Workers" is in the result
C3_ReduceCaseFullyCovered ==
    (Shown /\ TargetBelowCurrent) =>
        /\ \A i \in Positions :
              /\ proposals[i].uncoveredHours = Zero
              /\ proposals[i].efficiency = "Fully covered"
        /\ "Hire Additional Workers" \in Options

C3_Witness ==
    /\ Shown /\ TargetBelowCurrent
    /\ Options = {"Hire Additional Workers", "Redistribute Hours with Overtime"}

\* C4: with target equal to current the result is exactly the one "Current Capacity
\* Matches Target" proposal: cost 0, uncovered hours 0, efficiency "Fully covered"
C4_MatchSingleProposal ==
    (Shown /\ TargetEqualsCurrent) =>
        /\ Len(proposals) = 1
        /\ proposals[1].option = "Current Capacity Matches Target"
        /\ proposals[1].costImpact = Zero
        /\ proposals[1].uncoveredHours = Zero
        /\ proposals[1].efficiency = "Fully covered"

C4_Witness ==
    /\ Shown /\ TargetEqualsCurrent
    /\ data.numberOfWorkers = Num(10) /\ data.currentWeekHoursPerWorker = Num(40)
    /\ Len(proposals) = 1

\* C5: a proposal has costImpact 0 exactly when it is the "No deficit" proposal or
\* the trivial match proposal; every proposal emitted for target below current
\* has costImpact above 0
C5_ZeroCostIffNoDeficitOrMatch ==
    Shown =>
        \A i \in Positions :
            /\ proposals[i].costImpact = Zero <=>
                  \/ proposals[i].efficiency = "No deficit" /\ TargetAboveCurrent
                  \/ proposals[i].option = "Current Capacity Matches Target"
                        /\ TargetEqualsCurrent
            /\ TargetBelowCurrent => Gt(proposals[i].costImpact, Zero)

\* the smallest replacement: one hour to replace, hired hours and overtime both paid
C5_Witness ==
    /\ Shown /\ TargetBelowCurrent
    /\ Len(proposals) = 2
    /\ Lt(totalHoursToReplace(data), data.targetWeekHoursPerWorker)
    /\ \A i \in Positions : Gt(proposals[i].costImpact, Zero)

OvertimeOptions ==
    {"Redistribute Hours with Overtime", "Hybrid: Overtime + Additional Workers",
     "Add Extra Hours per Worker", "Use Maximum Extra Hours per Worker",
     "Hybrid Approach"}

\* the overtime hours a proposal uses, as its details state them
OvertimeHoursOf(p) ==
    IF p.option \in {"Redistribute Hours with Overtime",
                     "Hybrid: Overtime + Additional Workers"}
    THEN p.details.actualExtraHoursTotal
    ELSE p.details.totalExtraHours

\* the part of costImpact left after the regular-rate hours of new hires
OvertimePartOfCost(p) ==
    IF p.option = "Hybrid: Overtime + Additional Workers"
    THEN Sub(p.costImpact,
             Mul(Mul(p.details.additionalWorkersForRemainder,
                     data.targetWeekHoursPerWorker), data.hourlyRate))
    ELSE IF p.option = "Hybrid Approach"
    THEN Sub(p.costImpact, Mul(p.details.totalRemainingHours, data.hourlyRate))
    ELSE p.costImpact

\* C6: in every proposal that uses overtime, the overtime part of costImpact is
\* exactly 1.5 * hourlyRate * the overtime hours used
C6_OvertimeBilledAtOneAndAHalf ==
    evaluated =>
        \A i \in Positions :
            proposals[i].option \in OvertimeOptions =>
                OvertimePartOfCost(proposals[i]) =
                    Mul(Mul(Rat(3, 2), data.hourlyRate), OvertimeHoursOf(proposals[i]))

C6_Witness ==
    /\ Shown /\ TargetBelowCurrent
    /\ "Redistribute Hours with Overtime" \in Options
    /\ Gt(proposals[PositionOf("Redistribute Hours with Overtime")].costImpact, Zero)
    /\ data.hourlyRate = Rat(1, 100)

EmissionIndex(opt) ==
    CHOOSE k \in 1..Len(EmittedProposals(variant, data)) :
        EmittedProposals(variant, data)[k].option = opt

\* C7: proposals of equal costImpact stay in emission order; for target below
\* current a tie leaves "Hire Additional Workers" in front of the overtime proposal
C7_TiesKeepEmissionOrder ==
    evaluated =>
        /\ \A i, j \in Positions :
              (i < j /\ proposals[i].costImpact = proposals[j].costImpact) =>
                  EmissionIndex(proposals[i].option) < EmissionIndex(proposals[j].option)
        /\ (TargetBelowCurrent /\ Len(proposals) = 2
                /\ proposals[1].costImpact = proposals[2].costImpact) =>
              proposals[1].option = "Hire Additional Workers"

\* 1 worker from 5 to 3 hours: hiring 1 * 3 h and 2 h of overtime cost the same
C7_Witness ==
    /\ Shown
    /\ data.numberOfWorkers = Num(1)
    /\ data.currentWeekHoursPerWorker = Num(5)
    /\ data.targetWeekHoursPerWorker = Num(3)
    /\ Len(proposals) = 2
    /\ proposals[1].costImpact = proposals[2].costImpact
    /\ proposals[1].option = "Hire Additional Workers"
    /\ proposals[2].option = "Redistribute Hours with Overtime"

\* C8: for {numberOfWorkers 10, current 50, target 40, maxExtra 5, rate 25} the
\* result is "Hire Additional Workers" with cost 3000, then "Redistribute Hours
\* with Overtime" with cost 3750, and nothing else
C8_DocumentedExample ==
    (evaluated /\ data = ExampleConfig) =>
        /\ Len(proposals) = 2
        /\ proposals[1].option = "Hire Additional Workers"
        /\ proposals[1].costImpact = Num(3000)
        /\ proposals[2].option = "Redistribute Hours with Overtime"
        /\ proposals[2].costImpact = Num(3750)

C8_Witness ==
    /\ evaluated /\ data = ExampleConfig
    /\ Len(proposals) = 2
    /\ proposals[1].description.additionalWorkersNeeded = Num(3)
    /\ proposals[2].details.actualExtraHoursTotal = Num(100)

\* C9: for target below current and maxExtraHoursPerWorker > 0 the overtime proposal
\* assigns extra hours to at most numberOfWorkers workers and uses at most
\* numberOfWorkers * maxExtraHoursPerWorker overtime hours; when that capacity is
\* below the hours to replace, the proposal is clamped to it or flagged as partial
C9_OvertimeWithinWorkforce ==
    (Shown /\ TargetBelowCurrent /\ Gt(data.maxExtraHoursPerWorker, Zero)) =>
        \A i \in Positions :
            proposals[i].option \in {"Redistribute Hours with Overtime",
                                     "Hybrid: Overtime + Additional Workers"} =>
                LET w == proposals[i].description.workersWithExtraHours
                    h == proposals[i].details.actualExtraHoursTotal
                    capacity == Mul(data.numberOfWorkers, data.maxExtraHoursPerWorker)
                IN  /\ Le(w, data.numberOfWorkers)
                    /\ Le(h, capacity)
                    /\ Lt(capacity, totalHoursToReplace(data)) =>
                          \/ w = data.numberOfWorkers /\ h = capacity
                          \/ proposals[i].efficiency = "Partially covered"
                          \/ Gt(proposals[i].uncoveredHours, Zero)

\* C10: for every valid configuration the invocation completes with a list, no
\* division has a zero divisor, and every number of the result is finite
C10_TotalOnValidInput ==
    Shown =>
        /\ Len(proposals) >= 1
        /\ isCalculating = FALSE
        /\ divisors \subseteq {data.targetWeekHoursPerWorker,
                               data.maxExtraHoursPerWorker,
                               Mul(Mul(data.numberOfWorkers,
                                       data.currentWeekHoursPerWorker), data.hourlyRate)}
        /\ \A x \in divisors : IsFinite(x) /\ x # Zero
        /\ \A i \in Positions :
              /\ IsFinite(proposals[i].costImpact)
              /\ IsFinite(proposals[i].costPercentageChange)
              /\ IsFinite(proposals[i].totalWeeklyHours)
              /\ IsFinite(proposals[i].uncoveredHours)

\* all three kinds of division performed in one invocation
C10_Witness ==
    /\ Shown /\ TargetBelowCurrent
    /\ Cardinality(divisors) = 3
    /\ data.maxExtraHoursPerWorker \in divisors
    /\ Len(proposals) = 2

\* C11: the list is a function of the input alone: whatever was submitted before,
\* the list held is the one the engine yields for the latest configuration, and
\* invoking the engine again with the same configuration leaves the same list
C11_FunctionOfInputOnly ==
    /\ [](evaluated => proposals = calculateProposals(variant, data))
    /\ [][(evaluated /\ evaluated' /\ data' = data) => proposals' = proposals]_vars

\* a result that replaced the result of an earlier invocation
C11_Witness ==
    /\ replaced
    /\ data = ExampleConfig
    /\ Len(proposals) = 2
    /\ proposals = calculateProposals(variant, ExampleConfig)

\* C12: for every valid configuration every proposal has uncoveredHours >= 0
C12_UncoveredHoursNotNegative ==
    Shown => \A i \in Positions : Ge(proposals[i].uncoveredHours, Zero)

\* the one proposal that leaves hours uncovered
C12_Witness ==
    /\ Shown /\ variant = "deficit" /\ TargetAboveCurrent
    /\ "Use Maximum Extra Hours per Worker" \in Options
    /\ Gt(proposals[PositionOf("Use Maximum Extra Hours per Worker")].uncoveredHours, Zero)

HoursToReplace ==
    Mul(data.numberOfWorkers,
        Sub(data.currentWeekHoursPerWorker, data.targetWeekHoursPerWorker))

\* k is the least whole number with k * unit >= amount
IsCeilOf(k, amount, unit) ==
    /\ k.d = 1
    /\ Ge(Mul(k, unit), amount)
    /\ Lt(Mul(Sub(k, Num(1)), unit), amount)

\* C14: for target below current, "Hire Additional Workers" costs
\* ceil(totalHoursToReplace / target) * target * hourlyRate, the regular rate
C14_HireCostWholeWorkersAtRegularRate ==
    (Shown /\ TargetBelowCurrent) =>
        /\ "Hire Additional Workers" \in Options
        /\ LET cost == proposals[PositionOf("Hire Additional Workers")].costImpact
               k == Div(cost, Mul(data.targetWeekHoursPerWorker, data.hourlyRate))
           IN  IsCeilOf(k, HoursToReplace, data.targetWeekHoursPerWorker)

\* the hired hours exceed the hours to replace: 3 workers * 40 h for 100 h
C14_Witness ==
    /\ Shown /\ TargetBelowCurrent
    /\ data = ExampleConfig
    /\ proposals[PositionOf("Hire Additional Workers")].costImpact = Num(3000)
    /\ Lt(Mul(HoursToReplace, data.hourlyRate), Num(3000))

OvertimeBasedOptions ==
    {"Redistribute Hours with Overtime", "Hybrid: Overtime + Additional Workers"}

\* C15: for target below current an overtime-based proposal is emitted exactly
\* when maxExtraHoursPerWorker > 0; with maxExtraHoursPerWorker = 0 the result is
\* the one "Hire Additional Workers" proposal
C15_OvertimeOnlyWithExtraHours ==
    (Shown /\ TargetBelowCurrent) =>
        /\ (Options \cap OvertimeBasedOptions # {}) <=>
              Gt(data.maxExtraHoursPerWorker, Zero)
        /\ data.maxExtraHoursPerWorker = Zero =>
              /\ Len(proposals) = 1
              /\ proposals[1].option = "Hire Additional Workers"

C15_Witness ==
    /\ Shown /\ TargetBelowCurrent
    /\ data.maxExtraHoursPerWorker = Zero
    /\ Options = {"Hire Additional Workers"}

\* totalHoursToReplace - min(totalHoursToReplace, ceil(totalHoursToReplace / maxExtra) * maxExtra)
RemainingAfterOvertime ==
    LET w == CHOOSE k \in {proposals[i].description.workersWithExtraHours :
                              i \in {j \in Positions :
                                        proposals[j].option \in OvertimeBasedOptions}} :
                 TRUE
        covered == Mul(w, data.maxExtraHoursPerWorker)
    IN  Sub(HoursToReplace,
            IF Lt(covered, HoursToReplace) THEN covered ELSE HoursToReplace)

\* C16: for target below current and maxExtraHoursPerWorker > 0 exactly one
\* overtime-based proposal is emitted: "Redistribute Hours with Overtime" when
\* remainingHoursNeeded <= 0, otherwise "Hybrid: Overtime + Additional Workers"
\* costing the overtime plus ceil(remainingHoursNeeded / target) * target * rate
C16_OneOvertimeProposalByRemainder ==
    (Shown /\ TargetBelowCurrent /\ Gt(data.maxExtraHoursPerWorker, Zero)) =>
        /\ Cardinality({i \in Positions : proposals[i].option \in OvertimeBasedOptions}) = 1
        /\ \A i \in Positions :
              proposals[i].option \in OvertimeBasedOptions =>
                  IsCeilOf(proposals[i].description.workersWithExtraHours,
                           HoursToReplace, data.maxExtraHoursPerWorker)
        /\ IF Le(RemainingAfterOvertime, Zero)
           THEN "Redistribute Hours with Overtime" \in Options
           ELSE /\ "Hybrid: Overtime + Additional Workers" \in Options
                /\ LET p == proposals[PositionOf("Hybrid: Overtime + Additional Workers")]
                       overtime == Mul(Mul(Sub(HoursToReplace, RemainingAfterOvertime),
                                           data.hourlyRate), Rat(3, 2))
                       k == Div(Sub(p.costImpact, overtime),
                                Mul(data.targetWeekHoursPerWorker, data.hourlyRate))
                   IN  IsCeilOf(k, RemainingAfterOvertime, data.targetWeekHoursPerWorker)
        \* the Hybrid proposal as the code builds it for this input, emitted or not
        /\ LET h == HybridOvertimeAndWorkers(data)
               overtime == Mul(Mul(Sub(HoursToReplace, RemainingAfterOvertime),
                                   data.hourlyRate), Rat(3, 2))
               k == Div(Sub(h.costImpact, overtime),
                        Mul(data.targetWeekHoursPerWorker, data.hourlyRate))
           IN  IsCeilOf(k, RemainingAfterOvertime, data.targetWeekHoursPerWorker)

\* the workers given overtime could take more hours than are to be replaced
C16_Witness ==
    /\ Shown /\ TargetBelowCurrent /\ Gt(data.maxExtraHoursPerWorker, Zero)
    /\ "Redistribute Hours with Overtime" \in Options
    /\ LET p == proposals[PositionOf("Redistribute Hours with Overtime")]
       IN  Gt(Mul(p.description.workersWithExtraHours, data.maxExtraHoursPerWorker),
              HoursToReplace)

CurrentTotalHours == Mul(data.numberOfWorkers, data.currentWeekHoursPerWorker)

CurrentCost ==
    Mul(Mul(data.numberOfWorkers, data.currentWeekHoursPerWorker), data.hourlyRate)

\* C18: every proposal's costPercentageChange equals costImpact divided by
\* numberOfWorkers * currentWeekHoursPerWorker * hourlyRate, times 100, and is 0
\* exactly when costImpact is 0
C18_PercentageOfCurrentWeeklyCost ==
    Shown =>
        \A i \in Positions :
            /\ proposals[i].costPercentageChange =
                  Mul(Div(proposals[i].costImpact, CurrentCost), Num(100))
            /\ (proposals[i].costPercentageChange = Zero) <=>
                  (proposals[i].costImpact = Zero)

\* 3000 of 12500 is 24 percent
C18_Witness ==
    /\ Shown /\ data = ExampleConfig
    /\ \E i \in Positions :
          /\ proposals[i].costImpact = Num(3000)
          /\ proposals[i].costPercentageChange = Num(24)
    /\ CurrentCost = Num(12500)

\* C19: the held list is empty before the first valid submission; a valid
\* submission replaces it by exactly the engine's list for that submission (no
\* proposal of an earlier list stays, none is added to it), and a rejected
\* submission leaves it as it was
C19_EachEvaluationReplacesTheList ==
    /\ [](~evaluated => proposals = <<>>)
    /\ [](evaluated =>
             /\ Len(proposals) = Len(engine[variant][data].newProposals)
             /\ \A i \in Positions :
                   proposals[i] = engine[variant][data].newProposals[i])
    /\ [][errors' # {} => (proposals' = proposals /\ data' = data)]_vars

\* a list has been replaced, and the one held is the single proposal of the
\* latest submission
C19_Witness ==
    /\ replaced /\ evaluated
    /\ TargetEqualsCurrent
    /\ Len(proposals) = 1
    /\ proposals[1].option = "Current Capacity Matches Target"

\* C20: whatever the order in which the callers' invocations and reads
\* interleave, the list a caller obtains is the list the engine computes for
\* that caller's own input
C20_EachCallerObtainsItsOwnList ==
    \A c \in Callers :
        pc[c] = "shown" => obtained[c] = engine[variant][input[c]].newProposals

DeficitOptions ==
    {"Add Extra Hours per Worker", "Use Maximum Extra Hours per Worker",
     "Hire Additional Workforce", "Hybrid Approach"}

DeficitCase == Shown /\ variant = "deficit" /\ TargetAboveCurrent

\* C21: in the deficit variant with target above current the result is at most
\* four proposals, each a different one of the four deficit options, each with
\* costImpact > 0, and "Hire Additional Workforce" is always among them
C21_DeficitOptionsFundedWithHire ==
    DeficitCase =>
        /\ Len(proposals) \in 1..4
        /\ Options \subseteq DeficitOptions
        /\ Cardinality(Options) = Len(proposals)
        /\ \A i \in Positions : Gt(proposals[i].costImpact, Zero)
        /\ "Hire Additional Workforce" \in Options

C21_Witness ==
    /\ DeficitCase
    /\ Options = {"Use Maximum Extra Hours per Worker", "Hire Additional Workforce",
                  "Hybrid Approach"}
    /\ \A i \in Positions : Gt(proposals[i].costImpact, Zero)

IntegerValued(d) ==
    /\ d.numberOfWorkers.d = 1
    /\ d.currentWeekHoursPerWorker.d = 1
    /\ d.targetWeekHoursPerWorker.d = 1
    /\ d.maxExtraHoursPerWorker.d = 1

\* C22: for integer-valued valid configurations with target below current and
\* maxExtraHoursPerWorker > 0 the overtime covers all of totalHoursToReplace:
\* "Hybrid: Overtime + Additional Workers" is not emitted, "Redistribute Hours
\* with Overtime" is, with actualExtraHoursTotal = totalHoursToReplace and
\* costImpact = 1.5 * totalHoursToReplace * hourlyRate
C22_OvertimeAlwaysCoversIntegerHours ==
    (Shown /\ IntegerValued(data) /\ TargetBelowCurrent
        /\ Gt(data.maxExtraHoursPerWorker, Zero)) =>
        /\ "Hybrid: Overtime + Additional Workers" \notin Options
        /\ "Redistribute Hours with Overtime" \in Options
        /\ LET p == proposals[PositionOf("Redistribute Hours with Overtime")]
           IN  /\ p.details.actualExtraHoursTotal = HoursToReplace
               /\ p.costImpact = Mul(Mul(Rat(3, 2), HoursToReplace), data.hourlyRate)

\* maxExtraHoursPerWorker does not divide totalHoursToReplace
C22_Witness ==
    /\ Shown /\ IntegerValued(data) /\ TargetBelowCurrent
    /\ Gt(data.maxExtraHoursPerWorker, Zero)
    /\ Div(HoursToReplace, data.maxExtraHoursPerWorker).d # 1
    /\ "Redistribute Hours with Overtime" \in Options

C24_HireExcessBelowOneWorker ==
    (Shown /\ TargetBelowCurrent) =>
        /\ "Hire Additional Workers" \in Options
        /\ LET p == proposals[PositionOf("Hire Additional Workers")]
               excessHours == Sub(p.details.actualAdditionalHours, HoursToReplace)
           IN  /\ Ge(excessHours, Zero)
               /\ Lt(excessHours, data.targetWeekHoursPerWorker)
               /\ Ge(p.totalWeeklyHours, CurrentTotalHours)
               /\ Lt(p.totalWeeklyHours,
                     Add(CurrentTotalHours, data.targetWeekHoursPerWorker))

\* three workers of 40 h for 100 h: 20 h in excess
C24_Witness ==
    /\ Shown /\ TargetBelowCurrent /\ data = ExampleConfig
    /\ LET p == proposals[PositionOf("Hire Additional Workers")]
       IN  /\ Sub(p.details.actualAdditionalHours, HoursToReplace) = Num(20)
           /\ p.totalWeeklyHours = Num(520)

DifferencePerWorker ==
    Sub(data.targetWeekHoursPerWorker, data.currentWeekHoursPerWorker)

\* C25: in the deficit variant with target above current the result has two
\* proposals (overtime-only, new-hires) when maxExtraHoursPerWorker >= the
\* per-worker difference, one (new-hires) when maxExtraHoursPerWorker = 0, three
\* (max-overtime-partial, new-hires, hybrid) when it lies strictly between, and
\* never four
C25_DeficitProposalCount ==
    DeficitCase =>
        /\ Len(proposals) # 4
        /\ Ge(data.maxExtraHoursPerWorker, DifferencePerWorker) =>
              /\ Len(proposals) = 2
              /\ Options = {"Add Extra Hours per Worker", "Hire Additional Workforce"}
        /\ data.maxExtraHoursPerWorker = Zero =>
              /\ Len(proposals) = 1
              /\ Options = {"Hire Additional Workforce"}
        /\ (Gt(data.maxExtraHoursPerWorker, Zero)
              /\ Lt(data.maxExtraHoursPerWorker, DifferencePerWorker)) =>
              /\ Len(proposals) = 3
              /\ Options = {"Use Maximum Extra Hours per Worker",
                            "Hire Additional Workforce", "Hybrid Approach"}

\* the boundary: the allowed overtime is exactly the difference
C25_Witness ==
    /\ DeficitCase
    /\ data.maxExtraHoursPerWorker = DifferencePerWorker
    /\ Len(proposals) = 2
    /\ "Add Extra Hours per Worker" \in Options

Precedes(a, b) ==
    ({a, b} \subseteq Options) => PositionOf(a) < PositionOf(b)

\* C26: in the deficit variant with target above current the sorted list has
\* "Hire Additional Workforce" before "Add Extra Hours per Worker" and before
\* "Hybrid Approach", its costImpact strictly smaller, and "Use Maximum Extra
\* Hours per Worker" before "Hybrid Approach", whenever both are emitted
C26_DeficitOrderAfterSort ==
    DeficitCase =>
        /\ Precedes("Hire Additional Workforce", "Add Extra Hours per Worker")
        /\ Precedes("Hire Additional Workforce", "Hybrid Approach")
        /\ Precedes("Use Maximum Extra Hours per Worker", "Hybrid Approach")
        /\ \A i \in Positions :
              proposals[i].option \in {"Add Extra Hours per Worker", "Hybrid Approach"} =>
                 Lt(proposals[PositionOf("Hire Additional Workforce")].costImpact,
                    proposals[i].costImpact)
        /\ "Hire Additional Workforce" \in Options =>
              proposals[PositionOf("Hire Additional Workforce")].costImpact =
                 Mul(Mul(DifferencePerWorker, data.numberOfWorkers), data.hourlyRate)

\* emitted first, "Add Extra Hours per Worker" is moved behind the hire option
C26_Witness ==
    /\ DeficitCase
    /\ Len(proposals) = 2
    /\ proposals[1].option = "Hire Additional Workforce"
    /\ proposals[2].option = "Add Extra Hours per Worker"

\* C27: in the deficit variant a proposal has efficiency "Partially covered"
\* exactly when its uncoveredHours > 0; such a proposal is "Use Maximum Extra
\* Hours per Worker" and its uncoveredHours is
\* numberOfWorkers * (target - current - maxExtraHoursPerWorker)
C27_PartiallyCoveredIffUncovered ==
    (Shown /\ variant = "deficit") =>
        \A i \in Positions :
            /\ (proposals[i].efficiency = "Partially covered") <=>
                  Gt(proposals[i].uncoveredHours, Zero)
            /\ proposals[i].efficiency = "Partially covered" =>
                  /\ proposals[i].option = "Use Maximum Extra Hours per Worker"
                  /\ proposals[i].uncoveredHours =
                        Mul(data.numberOfWorkers,
                            Sub(DifferencePerWorker, data.maxExtraHoursPerWorker))

C27_Witness ==
    /\ Shown /\ variant = "deficit"
    /\ \E i \in Positions :
          /\ proposals[i].efficiency = "Partially covered"
          /\ proposals[i].uncoveredHours =
                Mul(data.numberOfWorkers,
                    Sub(DifferencePerWorker, data.maxExtraHoursPerWorker))
          /\ Gt(proposals[i].uncoveredHours, Num(1))

\* C28: a submission that fails validation leaves the held list as it was, and
\* in every state between handlers isCalculating is false
C28_RejectedSubmissionLeavesPageReady ==
    /\ [](isCalculating = FALSE)
    /\ [][errors' # {} => proposals' = proposals]_vars

\* a rejected submission after an accepted one: the two proposals are still held
C28_Witness ==
    /\ errors # {}
    /\ evaluated /\ data = ExampleConfig
    /\ Len(proposals) = 2
    /\ isCalculating = FALSE

LastFetched == fetched[Len(fetched)]

\* C29: one makeRequest call fetches at most 1 + API_CONFIG.retries = 4 times;
\* an attempt is followed by another only when it failed with an Error that is
\* not an ApiError; a non-2xx response is never followed by another attempt and
\* is raised as ApiError; and the failure of the fourth attempt is raised
C29_RetriesOnlyNetworkErrors ==
    /\ Len(fetched) <= 4
    /\ \A i \in 1..(Len(fetched) - 1) :
          fetched[i].error \in ErrorInstances \ {"ApiError"}
    /\ \A i \in 1..Len(fetched) :
          fetched[i].outcome \in Non2xx =>
             /\ i = Len(fetched)
             /\ reqPc = "raised"
             /\ thrown = "ApiError"
    /\ (Len(fetched) = 4 /\ LastFetched.error # "none") =>
          (reqPc = "raised" /\ thrown = LastFetched.error)

MissingCredentials == Falsy(credentials.email) \/ Falsy(credentials.password)

\* C30: authorize never completes by raising; with email or password missing
\* it returns null and no request is made; when the login call fails it returns
\* null; it returns a user only after a 2xx login response, and that user's
\* accessToken is the token of the response
C30_AuthorizeNeverRaises ==
    /\ result.kind # "throw"
    /\ authPc = "done" =>
          /\ result.kind = "return"
          /\ MissingCredentials =>
                (result.value = <<>> /\ reqPc = "none" /\ fetched = <<>>)
          /\ reqPc = "raised" => result.value = <<>>
          /\ result.value # <<>> =>
                /\ ~MissingCredentials
                /\ reqPc = "returned"
                /\ LastFetched.outcome \in {"2xx login body", "2xx login body without name"}
                /\ result.value[1].accessToken = LoginBody(LastFetched.outcome).token
                /\ result.value[1].accessToken # Undefined

\* the login succeeded at the second attempt
C30_Witness ==
    /\ authPc = "done"
    /\ Len(fetched) = 2
    /\ fetched[1].outcome = "network failure"
    /\ result.kind = "return"
    /\ result.value # <<>>
    /\ result.value[1].accessToken = "token-2"
    /\ result.value[1].name = <<"Ana", " ", "Diaz">>

====
